---- MODULE Spec2Model ----
(***************************************************************************)
(* basm: a small assembly language compiled to brainfuck                   *)
(*   src/basm/src/parser.rs   the parser (winnow combinators)              *)
(*   src/basm/src/main.rs     the compiler process and the code generator  *)
(*   src/brainfuck_interpreter/src/main.rs   the tape VM                   *)
(*                                                                         *)
(* Text (source text, emitted text, the VM's program) is a sequence of     *)
(* one-character strings.  TLC's integers are 32-bit signed, so a u32 is   *)
(* kept as a pair <<hi, lo>> of 16-bit halves (value hi * 65536 + lo) and  *)
(* i32 arithmetic that can leave the i32 range is done by cases.           *)
(***************************************************************************)
EXTENDS Integers, Sequences, FiniteSets, TLC

(***************************************************************************)
(* Bounds of the model                                                     *)
(***************************************************************************)
\* longest source text, in lines drawn from SourceLines
MaxLines == 2
\* largest cell value of a starting tape
MaxVal == 2
\* largest |offset| of a MOVE / MOVEVAL / COPY operand of a drawn program
MaxOff == 2
\* largest WRITE operand of a drawn program
MaxWrite == 2
\* the VM stops when a '+' would take a cell of a small value past MaxCell: a
\* loop that only ever adds to a cell would otherwise run 2^32 steps
MaxCell == 8
\* the entries of the ']' arm are counted up to MaxCloses
MaxCloses == 4

(***************************************************************************)
(* Machine integers                                                        *)
(***************************************************************************)
Half == 256 * 256
MaxI32 == 2147483647
MinI32 == (-2147483647) - 1

\* u32 as <<hi, lo>>
U32(n) == <<n \div Half, n % Half>>
U32Zero == <<0, 0>>
U32Max == <<Half - 1, Half - 1>>
\* the value of a u32 that fits the checker's integers
U32Val(c) == c[1] * Half + c[2]

\* u32::saturating_add(1)
saturating_add1(c) ==
    IF c = U32Max THEN c
    ELSE IF c[2] = Half - 1 THEN <<c[1] + 1, 0>> ELSE <<c[1], c[2] + 1>>

\* u32::saturating_sub(1)
saturating_sub1(c) ==
    IF c = U32Zero THEN c
    ELSE IF c[2] = 0 THEN <<c[1] - 1, Half - 1>> ELSE <<c[1], c[2] - 1>>

\* u32::checked_mul(10) then checked_add(d): <<TRUE, value>> or <<FALSE, _>>
checked_mul10_add(c, d) ==
    LET lo == c[2] * 10 + d
        hi == c[1] * 10 + (lo \div Half)
    IN  IF hi >= Half THEN <<FALSE, U32Zero>> ELSE <<TRUE, <<hi, lo % Half>>>>

\* i32::checked_mul(10) then checked_add(d) (sign) or checked_sub(d) (~sign):
\* <<TRUE, value>> or <<FALSE, _>>
i32_checked_mul10_acc(v, d, sign) ==
    LET lim == MaxI32 \div 10
    IN  IF sign
        THEN IF v > lim \/ (v = lim /\ d > MaxI32 % 10)
             THEN <<FALSE, 0>> ELSE <<TRUE, v * 10 + d>>
        ELSE IF v < -lim \/ (v = -lim /\ d > (MaxI32 % 10) + 1)
             THEN <<FALSE, 0>> ELSE <<TRUE, v * 10 - d>>

\* i32::wrapping_neg
wrapping_neg(n) == IF n = MinI32 THEN MinI32 ELSE -n

\* i32::wrapping_sub
wrapping_sub(a, b) ==
    IF b > 0 /\ a < MinI32 + b
    THEN MaxI32 - ((b - 1) - (a - MinI32))
    ELSE IF b < 0 /\ a > MaxI32 + b
    THEN MinI32 + ((-(b + 1)) - (MaxI32 - a))
    ELSE a - b

(***************************************************************************)
(* Characters                                                              *)
(***************************************************************************)
NL == "\n"
Quote == "'"
Backslash == "\\"
Upper == {"A", "B", "C", "D", "E", "F", "G", "H", "I", "J", "K", "L", "M",
          "N", "O", "P", "Q", "R", "S", "T", "U", "V", "W", "X", "Y", "Z"}
Lower == {"a", "b", "c", "d", "e", "f", "g", "h", "i", "j", "k", "l", "m",
          "n", "o", "p", "q", "r", "s", "t", "u", "v", "w", "x", "y", "z"}
\* char::is_ascii_alphabetic (winnow alpha1)
Alpha == Upper \cup Lower
Digits == <<"0", "1", "2", "3", "4", "5", "6", "7", "8", "9">>
Digit == {Digits[i] : i \in 1..10}
DigitVal(c) == (CHOOSE i \in 1..10 : Digits[i] = c) - 1
\* winnow multispace0: spaces, tabs, carriage returns, line feeds
Space == {" ", "\t", "\r", NL}

\* u32::from(char) for the characters the drawn texts use
CodePoint(c) ==
    IF c \in Digit THEN 48 + DigitVal(c)
    ELSE CASE c = NL -> 10
           [] c = "\t" -> 9
           [] c = "\r" -> 13
           [] c = " " -> 32
           [] c = Quote -> 39
           [] c = "+" -> 43
           [] c = "," -> 44
           [] c = "-" -> 45
           [] c = ";" -> 59
           [] c = "A" -> 65
           [] c = Backslash -> 92
           [] c = "a" -> 97
           [] c = "n" -> 110
           [] c = "t" -> 116
           [] OTHER -> 63

Drop(s, n) == SubSeq(s, n + 1, Len(s))
StartsWith(s, p) == Len(s) >= Len(p) /\ SubSeq(s, 1, Len(p)) = p

\* length of the longest prefix of s made of characters of C
RECURSIVE SpanLen(_, _)
SpanLen(s, C) ==
    IF s = <<>> \/ Head(s) \notin C THEN 0 ELSE 1 + SpanLen(Tail(s), C)

\* index of the first occurrence of character c in s, 0 when there is none
RECURSIVE FindChar(_, _)
FindChar(s, c) ==
    IF s = <<>> THEN 0
    ELSE IF Head(s) = c THEN 1
    ELSE LET r == FindChar(Tail(s), c) IN IF r = 0 THEN 0 ELSE r + 1

(***************************************************************************)
(* The parser (src/basm/src/parser.rs)                                     *)
(*                                                                         *)
(* A parser result is [k, rest, val]: k = "ok" with the remaining input    *)
(* and the value, k = "bt" for winnow's ErrMode::Backtrack, k = "cut" for  *)
(* ErrMode::Cut.                                                           *)
(***************************************************************************)
Ok(rest, val) == [k |-> "ok", rest |-> rest, val |-> val]
Backtrack == [k |-> "bt", rest |-> <<>>, val |-> 0]
Cut == [k |-> "cut", rest |-> <<>>, val |-> 0]

\* enum Instruction; the operands a variant lacks are zero
Instr(op, n, a, b) == [op |-> op, n |-> n, a |-> a, b |-> b]
Input == Instr("Input", U32Zero, 0, 0)
PrintI == Instr("Print", U32Zero, 0, 0)
WriteI(n) == Instr("Write", n, 0, 0)
Move(n) == Instr("Move", U32Zero, n, 0)
MoveValue(n) == Instr("MoveValue", U32Zero, n, 0)
CopyValue(to, tmp) == Instr("CopyValue", U32Zero, to, tmp)

multispace0(s) == Drop(s, SpanLen(s, Space))

\* winnow dec_uint::<u32>: a run of digits, failing on none and on overflow
RECURSIVE dec_uint_loop(_, _, _)
dec_uint_loop(s, offset, value) ==
    IF offset = Len(s) THEN Ok(<<>>, value)
    ELSE LET c == s[offset + 1]
         IN  IF c \in Digit
             THEN LET r == checked_mul10_add(value, DigitVal(c))
                  IN  IF r[1] THEN dec_uint_loop(s, offset + 1, r[2]) ELSE Backtrack
             ELSE IF offset = 0 THEN Backtrack ELSE Ok(Drop(s, offset), value)

dec_uint(s) == IF s = <<>> THEN Backtrack ELSE dec_uint_loop(s, 0, U32Zero)

\* winnow dec_int::<i32>: an optional sign, then a run of digits
RECURSIVE dec_int_loop(_, _, _, _)
dec_int_loop(s, offset, value, sign) ==
    IF offset = Len(s) THEN Ok(<<>>, value)
    ELSE LET c == s[offset + 1]
         IN  IF c \in Digit
             THEN LET r == i32_checked_mul10_acc(value, DigitVal(c), sign)
                  IN  IF r[1] THEN dec_int_loop(s, offset + 1, r[2], sign)
                      ELSE Backtrack
             ELSE IF offset = 0 THEN Backtrack ELSE Ok(Drop(s, offset), value)

dec_int(s) ==
    LET signed == s # <<>> /\ Head(s) \in {"+", "-"}
        sign == ~(signed /\ Head(s) = "-")
        body == IF signed THEN Tail(s) ELSE s
    IN  IF body = <<>> THEN Backtrack ELSE dec_int_loop(body, 0, 0, sign)

\* delimited('\'', any, '\'').map(u32::from)
char_literal(input) ==
    IF Len(input) >= 3 /\ input[1] = Quote /\ input[3] = Quote
    THEN Ok(Drop(input, 3), U32(CodePoint(input[2])))
    ELSE Backtrack

parse_escape(input) ==
    IF Len(input) >= 4 /\ input[1] = Quote /\ input[2] = Backslash
       /\ input[4] = Quote
    THEN IF input[3] = "n" THEN Ok(Drop(input, 4), U32(CodePoint(NL))) ELSE Cut
    ELSE Backtrack

\* alt((char literal, dec_uint, parse_escape)): the first alternative that does
\* not backtrack decides
parse_u32_param(input) ==
    LET r1 == char_literal(input)
        r2 == dec_uint(input)
    IN  IF r1.k # "bt" THEN r1
        ELSE IF r2.k # "bt" THEN r2
        ELSE parse_escape(input)

parse_i32_param(input) == dec_int(input)

\* delimited(multispace0, alt((alpha1, ";")), multispace0)
parse_word(input) ==
    LET a == multispace0(input)
        n == SpanLen(a, Alpha)
    IN  IF n > 0 THEN Ok(multispace0(Drop(a, n)), SubSeq(a, 1, n))
        ELSE IF a # <<>> /\ Head(a) = ";" THEN Ok(multispace0(Tail(a)), <<";">>)
        ELSE Backtrack

\* (parse_i32_param, delimited(multispace0, ',', multispace0), parse_i32_param)
parse_copy(input) ==
    LET r1 == parse_i32_param(input)
        sep == multispace0(r1.rest)
        r2 == parse_i32_param(multispace0(Tail(sep)))
    IN  IF r1.k # "ok" THEN r1
        ELSE IF sep = <<>> \/ Head(sep) # "," THEN Backtrack
        ELSE IF r2.k # "ok" THEN r2
        ELSE Ok(r2.rest, CopyValue(r1.val, r2.val))

\* take_until0("\n"): everything before the next line feed, failing when the
\* remaining input holds none
take_until0_nl(input) ==
    LET i == FindChar(input, NL)
    IN  IF i = 0 THEN Backtrack ELSE Ok(Drop(input, i - 1), 0)

M_INPUT == <<"I", "N", "P", "U", "T">>
M_PRINT == <<"P", "R", "I", "N", "T">>
M_WRITE == <<"W", "R", "I", "T", "E">>
M_MOVE == <<"M", "O", "V", "E">>
M_MOVEVAL == <<"M", "O", "V", "E", "V", "A", "L">>
M_COPY == <<"C", "O", "P", "Y">>

\* map a parameter parser's result to Some(instruction)
MapInstr(r, mk(_)) == IF r.k = "ok" THEN Ok(r.rest, mk(r.val)) ELSE r

\* parse_instruction: [k, rest, val, some, said]; some = FALSE is Ok(None) (a
\* comment), said = TRUE when the default arm printed "bad word"
parse_instruction(input) ==
    LET w == parse_word(input)
        i == w.rest
        With(r, some, said) ==
            [k |-> r.k, rest |-> r.rest, val |-> r.val, some |-> some, said |-> said]
    IN  IF w.k # "ok" THEN With(w, FALSE, FALSE)
        ELSE CASE w.val = M_INPUT -> With(Ok(i, Input), TRUE, FALSE)
               [] w.val = M_PRINT -> With(Ok(i, PrintI), TRUE, FALSE)
               [] w.val = M_WRITE ->
                    With(MapInstr(parse_u32_param(i), WriteI), TRUE, FALSE)
               [] w.val = M_MOVE ->
                    With(MapInstr(parse_i32_param(i), Move), TRUE, FALSE)
               [] w.val = M_MOVEVAL ->
                    With(MapInstr(parse_i32_param(i), MoveValue), TRUE, FALSE)
               [] w.val = M_COPY -> With(parse_copy(i), TRUE, FALSE)
               [] w.val = <<";">> -> With(take_until0_nl(i), FALSE, FALSE)
               [] OTHER -> With(Backtrack, FALSE, TRUE)

\* fold_many0(parse_instruction, Vec::new, push the Some items): repeat until
\* the parser backtracks, which ends the fold with what was gathered
RECURSIVE fold_many0(_, _)
fold_many0(input, acc) ==
    LET r == parse_instruction(input)
    IN  CASE r.k = "ok" ->
               IF Len(r.rest) = Len(input)
               THEN [ok |-> FALSE, instrs |-> <<>>, rest |-> input, said |-> FALSE]
               ELSE fold_many0(r.rest, IF r.some THEN Append(acc, r.val) ELSE acc)
          [] r.k = "bt" ->
               [ok |-> TRUE, instrs |-> acc, rest |-> input, said |-> r.said]
          [] OTHER ->
               [ok |-> FALSE, instrs |-> <<>>, rest |-> input, said |-> r.said]

\* parse: Ok(instructions) or Err; rest is the input the fold left unread
parse(s) == fold_many0(s, <<>>)

(***************************************************************************)
(* The code generator (src/basm/src/main.rs)                               *)
(*                                                                         *)
(* What a function writes is [text, panic]: the bytes written, and whether *)
(* it panicked after writing them.  i32::abs of i32::MIN overflows: it     *)
(* panics in a build with overflow checks and returns i32::MIN in one      *)
(* without; checks says which build runs.                                  *)
(***************************************************************************)
Txt(t) == [text |-> t, panic |-> FALSE]
Panic == [text |-> <<>>, panic |-> TRUE]
\* b is written after a, unless a panicked
Then(a, b) ==
    IF a.panic THEN a ELSE [text |-> a.text \o b.text, panic |-> b.panic]

CLEAR_REG == <<"[", "-", "]">>

RECURSIVE Rep(_, _)
Rep(bytes, n) == IF n <= 0 THEN <<>> ELSE bytes \o Rep(bytes, n - 1)

\* for _ in 0..n { write "+" } with n: u32
RECURSIVE RepU32(_, _)
RepU32(bytes, n) ==
    IF n = U32Zero THEN <<>> ELSE bytes \o RepU32(bytes, saturating_sub1(n))

write_multiple(bytes, n) == Txt(Rep(bytes, n))

\* i32::abs: the value a build without overflow checks computes, and whether a
\* build with them panics
abs(n) == IF n = MinI32 THEN MinI32 ELSE IF n < 0 THEN -n ELSE n
abs_panics(n, checks) == n = MinI32 /\ checks

write_move(moven, checks) ==
    IF moven = 0 THEN Txt(<<>>)
    ELSE IF moven > 0 THEN write_multiple(<<">">>, moven)
    ELSE IF abs_panics(moven, checks) THEN Panic
    ELSE write_multiple(<<"<">>, abs(moven))

\* the loop without the steps back to the source
write_move_val_loop_NoReturn(dist, sign_fwd, sign_back) ==
    Then(Txt(<<"[", "-">>),
    Then(write_multiple(sign_fwd, dist),
    Then(Txt(<<"+">>),
         Txt(<<"]">>))))

\* the loop with a clearing loop of the destination inside it
write_move_val_loop_Nested(dist, sign_fwd, sign_back) ==
    Then(Txt(<<"[", "-">>),
    Then(write_multiple(sign_fwd, dist),
    Then(Txt(CLEAR_REG \o <<"+">>),
    Then(write_multiple(sign_back, dist),
         Txt(<<"]">>)))))

write_move_val_loop(dist, sign_fwd, sign_back) ==
    Then(Txt(<<"[", "-">>),
    Then(write_multiple(sign_fwd, dist),
    Then(Txt(<<"+">>),
    Then(write_multiple(sign_back, dist),
         Txt(<<"]">>)))))

move_sign_of(n) == IF n >= 0 THEN <<">">> ELSE <<"<">>

\* MOVEVAL without the clearing of the destination
write_MoveValue_NoClear(n0, checks) ==
    LET sign_fwd == IF n0 > 0 THEN <<">">> ELSE <<"<">>
        sign_back == IF n0 > 0 THEN <<"<">> ELSE <<">">>
        n == abs(n0)
    IN  IF abs_panics(n0, checks) THEN Panic
        ELSE write_move_val_loop(n, sign_fwd, sign_back)

write_MoveValue(n0, checks) ==
    LET sign_fwd == IF n0 > 0 THEN <<">">> ELSE <<"<">>
        sign_back == IF n0 > 0 THEN <<"<">> ELSE <<">">>
        n == abs(n0)
    IN  IF abs_panics(n0, checks) THEN Panic
        ELSE Then(write_multiple(sign_fwd, n),
             Then(Txt(CLEAR_REG),
             Then(write_multiple(sign_back, n),
                  write_move_val_loop(n, sign_fwd, sign_back))))

\* COPY whose last loop does not carry tmp back into the original register
write_CopyValue_NoRestore(to, tmp, checks) ==
    Then(write_move(to, checks),
    Then(Txt(CLEAR_REG),
    Then(write_move(wrapping_sub(tmp, to), checks),
    Then(Txt(CLEAR_REG),
    Then(write_move(wrapping_neg(tmp), checks),
    Then(Txt(<<"[", "-">>),
    Then(write_move(to, checks),
    Then(Txt(<<"+">>),
    Then(write_move(wrapping_sub(tmp, to), checks),
    Then(Txt(<<"+">>),
    Then(write_move(wrapping_neg(tmp), checks),
    Then(Txt(<<"]">>),
    Then(write_move(tmp, checks),
    Then(Txt(CLEAR_REG),
         write_move(wrapping_neg(tmp), checks)))))))))))))))

\* COPY whose first loop does not increment tmp
write_CopyValue_NoTmpCopy(to, tmp, checks) ==
    Then(write_move(to, checks),
    Then(Txt(CLEAR_REG),
    Then(write_move(wrapping_sub(tmp, to), checks),
    Then(Txt(CLEAR_REG),
    Then(write_move(wrapping_neg(tmp), checks),
    Then(Txt(<<"[", "-">>),
    Then(write_move(to, checks),
    Then(Txt(<<"+">>),
    Then(write_move(wrapping_sub(tmp, to), checks),
    Then(write_move(wrapping_neg(tmp), checks),
    Then(Txt(<<"]">>),
    Then(write_move(tmp, checks),
    Then(IF abs_panics(tmp, checks) THEN Panic
         ELSE write_move_val_loop(abs(tmp), move_sign_of(wrapping_neg(tmp)),
                                  move_sign_of(tmp)),
         write_move(wrapping_neg(tmp), checks))))))))))))))

write_CopyValue(to, tmp, checks) ==
    Then(write_move(to, checks),
    Then(Txt(CLEAR_REG),
    Then(write_move(wrapping_sub(tmp, to), checks),
    Then(Txt(CLEAR_REG),
    Then(write_move(wrapping_neg(tmp), checks),
    Then(Txt(<<"[", "-">>),
    Then(write_move(to, checks),
    Then(Txt(<<"+">>),
    Then(write_move(wrapping_sub(tmp, to), checks),
    Then(Txt(<<"+">>),
    Then(write_move(wrapping_neg(tmp), checks),
    Then(Txt(<<"]">>),
    Then(write_move(tmp, checks),
    Then(IF abs_panics(tmp, checks) THEN Panic
         ELSE write_move_val_loop(abs(tmp), move_sign_of(wrapping_neg(tmp)),
                                  move_sign_of(tmp)),
         write_move(wrapping_neg(tmp), checks)))))))))))))))

\* WRITE without the clearing of the register
write_Write_NoClear(n) == Txt(RepU32(<<"+">>, n))

write_Write(n) == Txt(CLEAR_REG \o RepU32(<<"+">>, n))

write_Move(n, checks) ==
    LET sign == IF n < 0 THEN <<"<">> ELSE <<">">>
    IN  IF abs_panics(n, checks) THEN Panic ELSE write_multiple(sign, abs(n))

\* write_instruction: the fragment of one instruction
write_instruction(instruction, checks) ==
    CASE instruction.op = "Print" -> Txt(<<".">>)
      [] instruction.op = "Input" -> Txt(<<",">>)
      [] instruction.op = "Write" -> write_Write(instruction.n)
      [] instruction.op = "Move" -> write_Move(instruction.a, checks)
      [] instruction.op = "MoveValue" -> write_MoveValue(instruction.a, checks)
      [] instruction.op = "CopyValue" ->
             write_CopyValue(instruction.a, instruction.b, checks)

\* one iteration of compile's loop: the fragment, then a line feed
compile_one(instruction, checks) ==
    Then(write_instruction(instruction, checks), Txt(<<NL>>))

\* compile: every instruction's fragment and line feed, in order
RECURSIVE compile(_, _)
compile(instructions, checks) ==
    IF instructions = <<>> THEN Txt(<<>>)
    ELSE Then(compile_one(Head(instructions), checks),
              compile(Tail(instructions), checks))

(***************************************************************************)
(* Source texts the compiler is run on: up to MaxLines lines               *)
(***************************************************************************)
SP == <<" ">>
EOL == <<NL>>
L_PRINT == M_PRINT \o EOL
L_INPUT == M_INPUT \o EOL
L_WRITE_2 == M_WRITE \o SP \o <<"2">> \o EOL
L_WRITE_CHAR == M_WRITE \o SP \o <<Quote, "a", Quote>> \o EOL
L_WRITE_ESC_N == M_WRITE \o SP \o <<Quote, Backslash, "n", Quote>> \o EOL
L_WRITE_ESC_T == M_WRITE \o SP \o <<Quote, Backslash, "t", Quote>> \o EOL
L_WRITE_ESC_Q == M_WRITE \o SP \o <<Quote, Backslash, Quote, Quote>> \o EOL
L_WRITE_NONE == M_WRITE \o EOL
L_MOVE_0 == M_MOVE \o SP \o <<"0">> \o EOL
L_MOVE_1 == M_MOVE \o SP \o <<"1">> \o EOL
L_MOVE_M1 == M_MOVE \o SP \o <<"-", "1">> \o EOL
L_MOVE_BAD == M_MOVE \o SP \o <<"x">> \o EOL
L_MOVE_MIN ==
    M_MOVE \o SP \o <<"-", "2", "1", "4", "7", "4", "8", "3", "6", "4", "8">> \o EOL
L_MOVEVAL_1 == M_MOVEVAL \o SP \o <<"1">> \o EOL
L_COPY_1_2 == M_COPY \o SP \o <<"1", ",", " ", "2">> \o EOL
L_FOO == <<"F", "O", "O">> \o EOL
L_COMMENT == <<";", " ", "h", "i">> \o EOL
L_COMMENT_EMPTY == <<";">> \o EOL
L_COMMENT_SPACES == <<";", " ", " ">> \o EOL
\* a last line that no line feed ends
L_PRINT_OPEN == M_PRINT

\* the comment lines among them: ';', a text, a line feed
CommentLines == {L_COMMENT, L_COMMENT_EMPTY, L_COMMENT_SPACES}

SourceLines ==
    {L_PRINT, L_INPUT, L_WRITE_2, L_WRITE_CHAR, L_WRITE_ESC_N, L_WRITE_ESC_T,
     L_WRITE_ESC_Q, L_WRITE_NONE, L_MOVE_0, L_MOVE_1, L_MOVE_M1, L_MOVE_BAD, L_MOVE_MIN,
     L_MOVEVAL_1, L_COPY_1_2, L_FOO, L_PRINT_OPEN} \cup CommentLines

RECURSIVE TextsOf(_)
TextsOf(n) ==
    IF n = 0 THEN {<<>>}
    ELSE LET T == TextsOf(n - 1) IN T \cup {t \o l : t \in T, l \in SourceLines}

SourceTexts == TextsOf(MaxLines)

(***************************************************************************)
(* The compiler process (src/basm/src/main.rs, main)                       *)
(***************************************************************************)
VARIABLES
    pc,               \* where main is: "read", "parse", "compile", "exit"
    stdin,            \* the text on standard input
    overflow_checks,  \* whether the build panics on integer overflow
    s,                \* the String read from stdin
    instructions,     \* the Vec<Instruction> parse returned
    ip,               \* compile's position in instructions
    stdout,           \* the bytes written to standard output
    stderr,           \* the diagnostics written to standard error
    exit_code         \* the process's exit status, -1 while it runs

cvars == <<pc, stdin, overflow_checks, s, instructions, ip, stdout, stderr, exit_code>>

VARIABLES
    vm_pc,         \* "run" (the outer loop), "skip" (the loop skipping to the
                   \* next ']'), "done" (Ok(())), "panic", "err" (an io::Error)
    program,       \* the instructions whose emitted text the VM runs
    reader,        \* the text the reader yields
    rpos,          \* how many of its bytes have been read
    jump_stack,    \* vm.jump_stack
    buf,           \* vm.buf, the look back buffer
    cur_buf_idx,   \* vm.cur_buf_idx
    board,         \* vm.board
    cur_cell_idx,  \* vm.cur_cell_idx
    vm_stdin,      \* the bytes left on the VM's standard input
    vm_out,        \* the cell values printed
    start_idx,     \* cur_cell_idx when the text started to run
    start_board,   \* board when the text started to run
    closes         \* how many times the ']' arm has been entered, counted up
                   \* to MaxCloses

vmvars == <<vm_pc, program, reader, rpos, jump_stack, buf, cur_buf_idx, board, closes,
            cur_cell_idx, vm_stdin, vm_out, start_idx, start_board>>

vars == <<cvars, vmvars>>

\* what the compiler's steps leave alone, and what the VM's steps do
CFrame == UNCHANGED vmvars
VFrame == UNCHANGED <<cvars, program, reader, start_idx, start_board>>

EXIT_SUCCESS == 0
EXIT_READ == 101
EXIT_PARSE == 102
EXIT_WRITE == 103
\* the status of a Rust process that panicked, 101
EXIT_PANIC == 100 + 1

BAD_WORD == <<"b", "a", "d", " ", "w", "o", "r", "d", NL>>

BOARD_LEN == 32

\* the VM before it is started
VIdle ==
    /\ vm_pc = "done"
    /\ program = <<>>
    /\ reader = <<>>
    /\ rpos = 0
    /\ jump_stack = <<>>
    /\ buf = <<>>
    /\ cur_buf_idx = 0
    /\ board = [i \in 1..BOARD_LEN |-> U32Zero]
    /\ cur_cell_idx = 0
    /\ vm_stdin = <<>>
    /\ vm_out = <<>>
    /\ start_idx = 0
    /\ start_board = board
    /\ closes = 0

\* the compiler process before it is started
CIdle ==
    /\ pc = "exit"
    /\ stdin = <<>>
    /\ overflow_checks = FALSE
    /\ s = <<>>
    /\ instructions = <<>>
    /\ ip = 1
    /\ stdout = <<>>
    /\ stderr = <<>>
    /\ exit_code = -1

CInit ==
    /\ VIdle
    /\ pc = "read"
    /\ stdin \in SourceTexts
    /\ overflow_checks \in BOOLEAN
    /\ s = <<>>
    /\ instructions = <<>>
    /\ ip = 1
    /\ stdout = <<>>
    /\ stderr = <<>>
    /\ exit_code = -1

Exit(code, diagnostic) ==
    /\ pc' = "exit"
    /\ exit_code' = code
    /\ stderr' = IF diagnostic = "" THEN stderr ELSE Append(stderr, diagnostic)

\* stdin.read_to_string(&mut s) succeeds
ReadOk ==
    /\ CFrame
    /\ pc = "read"
    /\ s' = stdin
    /\ pc' = "parse"
    /\ UNCHANGED <<stdin, overflow_checks, instructions, ip, stdout, stderr, exit_code>>

\* stdin.read_to_string(&mut s) fails
ReadErr ==
    /\ CFrame
    /\ pc = "read"
    /\ Exit(EXIT_READ, "Error reading from stdin")
    /\ UNCHANGED <<stdin, overflow_checks, s, instructions, ip, stdout>>

\* parser::parse(&s) returns Ok: compile runs on what it returned
ParseOk ==
    /\ CFrame
    /\ pc = "parse"
    /\ LET r == parse(s)
       IN  /\ r.ok
           /\ instructions' = r.instrs
           /\ stdout' = IF r.said THEN stdout \o BAD_WORD ELSE stdout
    /\ pc' = "compile"
    /\ UNCHANGED <<stdin, overflow_checks, s, ip, stderr, exit_code>>

\* parser::parse(&s) returns Err
ParseErr ==
    /\ CFrame
    /\ pc = "parse"
    /\ LET r == parse(s)
       IN  /\ ~r.ok
           /\ stdout' = IF r.said THEN stdout \o BAD_WORD ELSE stdout
    /\ Exit(EXIT_PARSE, "Error Parsing input")
    /\ UNCHANGED <<stdin, overflow_checks, s, instructions, ip>>

\* println!("bad word") panics, standard output being closed
ParsePanic ==
    /\ CFrame
    /\ pc = "parse"
    /\ parse(s).said
    /\ Exit(EXIT_PANIC, "panicked")
    /\ UNCHANGED <<stdin, overflow_checks, s, instructions, ip, stdout>>

\* one iteration of compile's loop, every write succeeding
WriteInstruction ==
    /\ CFrame
    /\ pc = "compile"
    /\ ip <= Len(instructions)
    /\ LET f == compile_one(instructions[ip], overflow_checks)
       IN  /\ stdout' = stdout \o f.text
           /\ IF f.panic
              THEN Exit(EXIT_PANIC, "panicked") /\ ip' = ip
              ELSE ip' = ip + 1 /\ UNCHANGED <<pc, exit_code, stderr>>
    /\ UNCHANGED <<stdin, overflow_checks, s, instructions>>

\* one iteration of compile's loop, a write failing after k bytes of it
WriteError ==
    /\ CFrame
    /\ pc = "compile"
    /\ ip <= Len(instructions)
    /\ LET f == compile_one(instructions[ip], overflow_checks)
       IN  \E k \in 0..(Len(f.text) - 1) : stdout' = stdout \o SubSeq(f.text, 1, k)
    /\ Exit(EXIT_WRITE, "Error writing to stdout")
    /\ UNCHANGED <<stdin, overflow_checks, s, instructions, ip>>

\* compile returned Ok(())
CompileDone ==
    /\ CFrame
    /\ pc = "compile"
    /\ ip > Len(instructions)
    /\ Exit(EXIT_SUCCESS, "")
    /\ UNCHANGED <<stdin, overflow_checks, s, instructions, ip, stdout>>

CNext ==
    \/ ReadOk
    \/ ReadErr
    \/ ParseOk
    \/ ParseErr
    \/ ParsePanic
    \/ WriteInstruction
    \/ WriteError
    \/ CompileDone

(***************************************************************************)
(* The tape VM (src/brainfuck_interpreter/src/main.rs, interpret)          *)
(*                                                                         *)
(* It runs the text the compiler emits for a drawn program, from a tape    *)
(* and a pointer position that a prefix of WRITE and MOVE instructions     *)
(* leaves behind.  Indexes are 0-based as in the source; board[i + 1] is   *)
(* the source's board[i].                                                  *)
(***************************************************************************)
\* operands of the drawn programs
Offsets == (-MaxOff)..MaxOff
Instructions ==
    {Input, PrintI}
    \cup {WriteI(U32(n)) : n \in 0..MaxWrite}
    \cup {Move(n) : n \in Offsets}
    \cup {MoveValue(n) : n \in Offsets}
    \cup {CopyValue(to, tmp) : to \in Offsets, tmp \in Offsets}
Moves == {Move(n) : n \in Offsets}

\* one instruction, or a MOVE before or after one
Programs ==
    {<<i>> : i \in Instructions}
    \cup {<<m, i>> : m \in Moves, i \in Instructions}
    \cup {<<i, m>> : i \in Instructions, m \in Moves}

\* pointer positions the text starts on: the left edge, beside it, clear of
\* it, the last cell of the initial board, and one past it (where '>' from the
\* last cell leaves the pointer)
StartCells == {0, 1, MaxOff, BOARD_LEN - 1, BOARD_LEN}

\* the cell under the pointer holds v, the cells an odd distance away w1 and
\* the others w2
Tape(p, v, w1, w2) ==
    [i \in 1..BOARD_LEN |->
        IF i - 1 = p THEN U32(v)
        ELSE IF (i - 1 - p) % 2 = 1 THEN U32(w1) ELSE U32(w2)]

StdinBytes == {0, 7}

HasInput(prog) == \E i \in 1..Len(prog) : prog[i].op = "Input"

VInit ==
    /\ CIdle
    /\ vm_pc = "run"
    /\ program \in Programs
    /\ reader = compile(program, FALSE).text
    /\ rpos = 0
    /\ jump_stack = <<>>
    /\ buf = <<>>
    /\ cur_buf_idx = 0
    /\ start_idx \in StartCells
    /\ \E v \in 0..MaxVal, w1 \in 0..MaxVal, w2 \in 0..MaxVal :
          /\ Len(program) > 1 => (w1 = 0 /\ w2 = 0)
          /\ start_board = Tape(start_idx, v, w1, w2)
    /\ board = start_board
    /\ cur_cell_idx = start_idx
    /\ vm_stdin \in
          IF HasInput(program)
          THEN {<<>>} \cup {<<b>> : b \in StdinBytes}
          ELSE {<<>>}
    /\ vm_out = <<>>
    /\ closes = 0

\* retrieve_byte: the byte at cur_buf_idx of the look back buffer, else the
\* reader's next byte; from is "buf", "reader" or "eof"
RetrieveFrom ==
    IF cur_buf_idx < Len(buf) THEN "buf"
    ELSE IF rpos < Len(reader) THEN "reader" ELSE "eof"
RetrieveByte ==
    IF RetrieveFrom = "buf" THEN buf[cur_buf_idx + 1] ELSE reader[rpos + 1]
\* the reader after retrieve_byte
Retrieved == IF RetrieveFrom = "reader" THEN rpos + 1 ELSE rpos

\* cur_cell_mut reaches its unreachable!() when the index is outside the board
InBoard == cur_cell_idx < Len(board)
CurCell == board[cur_cell_idx + 1]

\* the end of the outer loop's body: the byte is recorded while a loop is open
Record(b, stack) ==
    IF stack # <<>>
    THEN /\ buf' = IF cur_buf_idx >= Len(buf) THEN Append(buf, b) ELSE buf
         /\ cur_buf_idx' = cur_buf_idx + 1
    ELSE UNCHANGED <<buf, cur_buf_idx>>

VPanic ==
    /\ vm_pc' = "panic"
    /\ UNCHANGED <<jump_stack, buf, cur_buf_idx, board, cur_cell_idx, vm_stdin, vm_out>>

\* the outer loop reads a byte b
Fetch(b) ==
    /\ vm_pc = "run"
    /\ RetrieveFrom # "eof"
    /\ RetrieveByte = b
    /\ rpos' = Retrieved

\* retrieve_byte returns None: interpret returns Ok(())
StepEof ==
    /\ VFrame
    /\ UNCHANGED closes
    /\ vm_pc \in {"run", "skip"}
    /\ RetrieveFrom = "eof"
    /\ vm_pc' = "done"
    /\ UNCHANGED <<rpos, jump_stack, buf, cur_buf_idx, board, cur_cell_idx, vm_stdin, vm_out>>

\* the bound of the model on a cell's value
BelowCap == IF InBoard THEN CurCell[1] # 0 \/ CurCell[2] < MaxCell ELSE TRUE

StepPlus ==
    /\ VFrame
    /\ UNCHANGED closes
    /\ Fetch("+")
    /\ BelowCap
    /\ IF InBoard
       THEN /\ board' = [board EXCEPT ![cur_cell_idx + 1] = saturating_add1(@)]
            /\ Record("+", jump_stack)
            /\ UNCHANGED <<vm_pc, jump_stack, cur_cell_idx, vm_stdin, vm_out>>
       ELSE VPanic

StepMinus ==
    /\ VFrame
    /\ UNCHANGED closes
    /\ Fetch("-")
    /\ IF InBoard
       THEN /\ board' = [board EXCEPT ![cur_cell_idx + 1] = saturating_sub1(@)]
            /\ Record("-", jump_stack)
            /\ UNCHANGED <<vm_pc, jump_stack, cur_cell_idx, vm_stdin, vm_out>>
       ELSE VPanic

StepRight ==
    /\ VFrame
    /\ UNCHANGED closes
    /\ Fetch(">")
    /\ board' = IF cur_cell_idx = Len(board) THEN Append(board, U32Zero) ELSE board
    /\ cur_cell_idx' = cur_cell_idx + 1
    /\ Record(">", jump_stack)
    /\ UNCHANGED <<vm_pc, jump_stack, vm_stdin, vm_out>>

\* '<' that returns an error on cell 0
StepLeft_Errs ==
    /\ VFrame
    /\ UNCHANGED closes
    /\ Fetch("<")
    /\ IF cur_cell_idx = 0
       THEN /\ vm_pc' = "err"
            /\ UNCHANGED <<jump_stack, buf, cur_buf_idx, board, cur_cell_idx,
                           vm_stdin, vm_out>>
       ELSE /\ cur_cell_idx' = cur_cell_idx - 1
            /\ Record("<", jump_stack)
            /\ UNCHANGED <<vm_pc, jump_stack, board, vm_stdin, vm_out>>

StepLeft ==
    /\ VFrame
    /\ UNCHANGED closes
    /\ Fetch("<")
    /\ cur_cell_idx' = IF cur_cell_idx = 0 THEN 0 ELSE cur_cell_idx - 1
    /\ Record("<", jump_stack)
    /\ UNCHANGED <<vm_pc, jump_stack, board, vm_stdin, vm_out>>

StepPrint ==
    /\ VFrame
    /\ UNCHANGED closes
    /\ Fetch(".")
    /\ IF InBoard
       THEN /\ vm_out' = Append(vm_out, CurCell)
            /\ Record(".", jump_stack)
            /\ UNCHANGED <<vm_pc, jump_stack, board, cur_cell_idx, vm_stdin>>
       ELSE VPanic

\* stdin.read_exact comes first: at the end of stdin interpret returns its
\* error, else the byte is taken and then stored in the current cell
StepInput ==
    /\ VFrame
    /\ UNCHANGED closes
    /\ Fetch(",")
    /\ IF vm_stdin = <<>>
       THEN /\ vm_pc' = "err"
            /\ UNCHANGED <<jump_stack, buf, cur_buf_idx, board, cur_cell_idx,
                           vm_stdin, vm_out>>
       ELSE IF InBoard
       THEN /\ board' = [board EXCEPT ![cur_cell_idx + 1] = U32(Head(vm_stdin))]
            /\ vm_stdin' = Tail(vm_stdin)
            /\ Record(",", jump_stack)
            /\ UNCHANGED <<vm_pc, jump_stack, cur_cell_idx, vm_out>>
       ELSE /\ vm_pc' = "panic"
            /\ vm_stdin' = Tail(vm_stdin)
            /\ UNCHANGED <<jump_stack, buf, cur_buf_idx, board, cur_cell_idx, vm_out>>

\* '[': on a zero cell skip to the next ']', else push the position to jump
\* back to
StepOpen ==
    /\ VFrame
    /\ UNCHANGED closes
    /\ Fetch("[")
    /\ IF ~InBoard THEN VPanic
       ELSE IF CurCell = U32Zero
       THEN /\ vm_pc' = "skip"
            /\ UNCHANGED <<jump_stack, buf, cur_buf_idx, board, cur_cell_idx,
                           vm_stdin, vm_out>>
       ELSE /\ jump_stack' = Append(jump_stack, cur_buf_idx)
            /\ Record("[", jump_stack')
            /\ UNCHANGED <<vm_pc, board, cur_cell_idx, vm_stdin, vm_out>>

\* the loop inside the '[' arm: bytes are retrieved until one is ']', and
\* then the outer loop continues; cur_buf_idx does not move
StepSkip ==
    /\ VFrame
    /\ UNCHANGED closes
    /\ vm_pc = "skip"
    /\ RetrieveFrom # "eof"
    /\ rpos' = Retrieved
    /\ vm_pc' = IF RetrieveByte = "]" THEN "run" ELSE "skip"
    /\ UNCHANGED <<jump_stack, buf, cur_buf_idx, board, cur_cell_idx, vm_stdin, vm_out>>

\* ']': on a zero cell leave the loop, else jump back to its '['
StepClose ==
    /\ VFrame
    /\ closes' = IF closes < MaxCloses THEN closes + 1 ELSE closes
    /\ Fetch("]")
    /\ IF ~InBoard THEN VPanic
       ELSE IF CurCell = U32Zero
       THEN LET popped == IF jump_stack = <<>> THEN <<>>
                          ELSE SubSeq(jump_stack, 1, Len(jump_stack) - 1)
            IN  /\ jump_stack' = popped
                /\ IF popped = <<>>
                   THEN buf' = <<>> /\ cur_buf_idx' = 0
                   ELSE /\ buf' = IF cur_buf_idx >= Len(buf)
                                  THEN Append(buf, "]") ELSE buf
                        /\ cur_buf_idx' = cur_buf_idx + 1
                /\ UNCHANGED <<vm_pc, board, cur_cell_idx, vm_stdin, vm_out>>
       ELSE IF jump_stack # <<>>
       THEN /\ jump_stack' = SubSeq(jump_stack, 1, Len(jump_stack) - 1)
            /\ buf' = IF cur_buf_idx >= Len(buf) THEN Append(buf, "]") ELSE buf
            /\ cur_buf_idx' = jump_stack[Len(jump_stack)]
            /\ UNCHANGED <<vm_pc, board, cur_cell_idx, vm_stdin, vm_out>>
       ELSE UNCHANGED <<vm_pc, jump_stack, buf, cur_buf_idx, board, cur_cell_idx,
                        vm_stdin, vm_out>>

\* any other byte (the line feed after each fragment) does nothing
StepOther ==
    /\ VFrame
    /\ UNCHANGED closes
    /\ vm_pc = "run"
    /\ RetrieveFrom # "eof"
    /\ RetrieveByte \notin {"+", "-", ">", "<", ".", ",", "[", "]"}
    /\ rpos' = Retrieved
    /\ Record(RetrieveByte, jump_stack)
    /\ UNCHANGED <<vm_pc, jump_stack, board, cur_cell_idx, vm_stdin, vm_out>>

VNext ==
    \/ StepEof
    \/ StepPlus
    \/ StepMinus
    \/ StepRight
    \/ StepLeft
    \/ StepPrint
    \/ StepInput
    \/ StepOpen
    \/ StepSkip
    \/ StepClose
    \/ StepOther

\* the compiler process
Spec == CInit /\ [][CNext]_vars

\* the VM on the emitted text of a drawn program
SpecVM == VInit /\ [][VNext]_vars

\* how many bytes of t there are up to and including its n-th '[' (the whole
\* of t when it has fewer)
RECURSIVE ThroughOpen(_, _)
ThroughOpen(t, n) ==
    IF n = 0 \/ t = <<>> THEN 0
    ELSE 1 + ThroughOpen(Tail(t), IF Head(t) = "[" THEN n - 1 ELSE n)

\* how many bytes of t there are up to and including its n-th ']' (the whole
\* of t when it has fewer)
RECURSIVE ThroughClose(_, _)
ThroughClose(t, n) ==
    IF n = 0 \/ t = <<>> THEN 0
    ELSE 1 + ThroughClose(Tail(t), IF Head(t) = "]" THEN n - 1 ELSE n)

\* values of cell 0 late in a run that keeps incrementing it: the largest u32
\* and the ones just below
LateValues == {<<Half - 1, Half - 1 - k>> : k \in 0..MaxVal}

\* The run of COPY 0, tmp (tmp < 0) started fewer than |tmp| cells from cell
\* 0, at the start of an iteration of its first loop, late in the run.  The
\* '<' of the fragment saturated at cell 0, so the pointer came back |tmp|
\* cells right of cell 0, on a cell the fragment did not clear; the ']' arm
\* has just jumped back: the loop is in the look back buffer, cur_buf_idx on
\* its '['.  Each iteration so far has added one to cell 0.
XInit ==
    /\ CIdle
    /\ vm_pc = "run"
    /\ \E tmp \in (-MaxOff)..(-1) :
          /\ program = <<CopyValue(0, tmp)>>
          /\ start_idx \in 0..((-tmp) - 1)
          /\ cur_cell_idx = -tmp
    /\ reader = compile(program, FALSE).text
    /\ rpos = ThroughClose(reader, 3)
    /\ jump_stack = <<>>
    /\ buf = SubSeq(reader, ThroughOpen(reader, 3), ThroughClose(reader, 3))
    /\ cur_buf_idx = 0
    /\ \E v \in 1..MaxVal, w2 \in 0..MaxVal :
          start_board = Tape(cur_cell_idx, v, w2, w2)
    /\ \E late \in LateValues :
          board = [i \in 1..BOARD_LEN |->
                      IF i = 1 THEN late
                      ELSE IF i - 1 = start_idx THEN U32Zero
                      ELSE start_board[i]]
    /\ vm_stdin = <<>>
    /\ vm_out = <<>>
    /\ closes = MaxCloses

XNext ==
    \/ StepPlus
    \/ StepMinus
    \/ StepRight
    \/ StepLeft
    \/ StepOpen
    \/ StepClose

\* the VM late in the run of COPY 0, tmp near cell 0; interpret's loop takes
\* its next step whenever there is one
SpecLate == XInit /\ [][XNext]_vars /\ WF_vars(XNext)

\* texts of pointer moves from the VM's own initial state: some '>', then some
\* '<', then possibly a '+' that uses the cell under the pointer
MoveTexts ==
    {Rep(<<">">>, a) \o Rep(<<"<">>, b) \o Rep(<<"+">>, c) :
        a \in 0..(BOARD_LEN + MaxOff), b \in 0..MaxOff, c \in 0..1}

\* interpret's BfVm as constructed: 32 zero cells, the pointer on cell 0
TInit ==
    /\ CIdle
    /\ vm_pc = "run"
    /\ program = <<>>
    /\ reader \in MoveTexts
    /\ rpos = 0
    /\ jump_stack = <<>>
    /\ buf = <<>>
    /\ cur_buf_idx = 0
    /\ board = [i \in 1..BOARD_LEN |-> U32Zero]
    /\ cur_cell_idx = 0
    /\ vm_stdin = <<>>
    /\ vm_out = <<>>
    /\ start_idx = 0
    /\ start_board = board
    /\ closes = 0

TNext ==
    \/ StepEof
    \/ StepPlus
    \/ StepRight
    \/ StepLeft

\* the VM from its initial state on a text of pointer moves
SpecTape == TInit /\ [][TNext]_vars

\* the two directions write_move_val_loop is called with
Directions == {<<">">>, <<"<">>}
Opposite(sign) == IF sign = <<">">> THEN <<"<">> ELSE <<">">>

\* values of the cell the loop carries into: small ones, and the largest u32
DestValues == {U32(w) : w \in 0..MaxVal} \cup {U32Max}

\* the VM about to run the text of one drain-and-carry loop, the pointer on a
\* cell holding v and the cell dist steps forward holding any value
LInit ==
    /\ CIdle
    /\ vm_pc = "run"
    /\ program = <<>>
    /\ \E dist \in 1..MaxOff, sign_fwd \in Directions :
          /\ reader = write_move_val_loop(dist, sign_fwd, Opposite(sign_fwd)).text
          /\ start_idx \in StartCells
          /\ \E v \in 0..MaxVal, w \in DestValues :
                LET dest == IF sign_fwd = <<">">> THEN start_idx + dist
                            ELSE start_idx - dist
                    tape == Tape(start_idx, v, 0, 0)
                IN  start_board = [i \in 1..BOARD_LEN |->
                                      IF i - 1 = dest THEN w ELSE tape[i]]
    /\ rpos = 0
    /\ jump_stack = <<>>
    /\ buf = <<>>
    /\ cur_buf_idx = 0
    /\ board = start_board
    /\ cur_cell_idx = start_idx
    /\ vm_stdin = <<>>
    /\ vm_out = <<>>
    /\ closes = 0

LNext ==
    \/ StepEof
    \/ StepPlus
    \/ StepMinus
    \/ StepRight
    \/ StepLeft
    \/ StepOpen
    \/ StepSkip
    \/ StepClose

\* the VM on the text of one drain-and-carry loop
SpecLoop == LInit /\ [][LNext]_vars

(***************************************************************************)
(* Properties of the emitted fragments, run by the VM (SpecVM)             *)
(***************************************************************************)
\* the register at offset off from the one the text started on
Reg(off) == start_idx + off
InTape(off) == Reg(off) >= 0 /\ Reg(off) < Len(start_board)
Before(off) == start_board[Reg(off) + 1]
Now(off) == board[Reg(off) + 1]

\* the run stopped at the model's bound on a cell's value
AtCap == vm_pc = "run" /\ RetrieveFrom # "eof" /\ RetrieveByte = "+" /\ ~BelowCap
\* the run did not end by interpret returning Ok(())
Failed == vm_pc \in {"panic", "err"} \/ AtCap

Runs(instruction) == program = <<instruction>>

\* C1: for to and tmp nonzero and different, registers to and tmp being cells
\* of the tape, the fragment of COPY to, tmp runs to its end and leaves the
\* current register at its value v, register to at v, register tmp at 0 and
\* the pointer on the register it started on.
C1_CopyContract ==
    \A to \in Offsets, tmp \in Offsets :
        (/\ Runs(CopyValue(to, tmp))
         /\ to # 0 /\ tmp # 0 /\ to # tmp
         /\ InTape(0) /\ InTape(to) /\ InTape(tmp))
        => /\ ~Failed
           /\ vm_pc = "done" =>
                 /\ Now(0) = Before(0)
                 /\ Now(to) = Before(0)
                 /\ Now(tmp) = U32Zero
                 /\ cur_cell_idx = start_idx

\* C1 witness: COPY 1, 2 has run on a tape whose registers 0, 1 and 2 all
\* held nonzero values
C1_Witness ==
    /\ Runs(CopyValue(1, 2))
    /\ vm_pc = "done"
    /\ InTape(0) /\ InTape(2)
    /\ Before(0) # U32Zero /\ Before(1) # U32Zero /\ Before(2) # U32Zero
    /\ Now(1) = Before(0)

\* C2 as claimed: MOVEVAL n (n # 0) leaves the source at 0, the destination at
\* v + w and the pointer on the source.
C2_MoveValueAdds ==
    \A n \in Offsets :
        (Runs(MoveValue(n)) /\ n # 0 /\ InTape(0) /\ InTape(n) /\ vm_pc = "done")
        => /\ Now(0) = U32Zero
           /\ Now(n) = U32(U32Val(Before(0)) + U32Val(Before(n)))
           /\ cur_cell_idx = start_idx

\* C2 amended: MOVEVAL n (n # 0, the register at offset n being a cell of the
\* tape) runs to its end and leaves the source at 0, the destination at v,
\* whatever it held, and the pointer on the source.
C2_MoveValueMoves ==
    \A n \in Offsets :
        (Runs(MoveValue(n)) /\ n # 0 /\ InTape(0) /\ InTape(n))
        => /\ ~Failed
           /\ vm_pc = "done" =>
                 /\ Now(0) = U32Zero
                 /\ Now(n) = Before(0)
                 /\ cur_cell_idx = start_idx

\* C2 witness: MOVEVAL has run with a nonzero source and a nonzero destination
C2_Witness ==
    /\ InTape(0)
    /\ \E n \in Offsets : Runs(MoveValue(n)) /\ n # 0 /\ InTape(n)
                          /\ Before(n) # U32Zero
    /\ Before(0) # U32Zero
    /\ vm_pc = "done"

\* the sum of the operands of a program's Move instructions
RECURSIVE MoveSum(_)
MoveSum(prog) ==
    IF prog = <<>> THEN 0
    ELSE (IF Head(prog).op = "Move" THEN Head(prog).a ELSE 0) + MoveSum(Tail(prog))

\* C3: after the emitted text of any program has run, the pointer is displaced
\* from its start by the sum of the operands of the program's Move
\* instructions; an instruction other than Move leaves it where it started.
C3_PointerDisplacement ==
    vm_pc = "done" => cur_cell_idx = start_idx + MoveSum(program)

\* C6: after running the output of MOVE n then MOVE -n the pointer is on the
\* register it started on.
C6_MoveRoundTrip ==
    \A n \in Offsets :
        (program = <<Move(n), Move(-n)>> /\ vm_pc = "done")
        => cur_cell_idx = start_idx

\* C7: the fragment of WRITE n, run with the pointer on a cell of the tape,
\* runs to its end and leaves the current register at n, every other register
\* as it was and the pointer in place.
C7_WriteContract ==
    \A n \in 0..MaxWrite :
        (Runs(WriteI(U32(n))) /\ InTape(0))
        => /\ ~Failed
           /\ vm_pc = "done" =>
                 /\ board = [start_board EXCEPT ![start_idx + 1] = U32(n)]
                 /\ cur_cell_idx = start_idx

\* C7 witness: a WRITE of a nonzero value has run over a different nonzero
\* value
C7_Witness ==
    /\ InTape(0)
    /\ \E n \in 1..MaxWrite : Runs(WriteI(U32(n))) /\ Before(0) # U32(n)
    /\ Before(0) # U32Zero
    /\ vm_pc = "done"

\* the first loop of the COPY fragment (after the two clearing loops) has just
\* exited: its ']' is the last byte read, and no loop is open or replayed
FirstLoopExited ==
    /\ vm_pc = "run"
    /\ rpos = ThroughClose(reader, 3)
    /\ jump_stack = <<>>
    /\ buf = <<>>

\* C13: in the fragment of COPY to, tmp (to and tmp nonzero and different, the
\* three registers cells of the tape, the current register holding v), when
\* the first loop has just exited the original register holds 0, to holds v,
\* tmp holds v and the pointer is on the original register.
C13_AfterFirstLoop ==
    \A to \in Offsets, tmp \in Offsets :
        (/\ Runs(CopyValue(to, tmp))
         /\ to # 0 /\ tmp # 0 /\ to # tmp
         /\ InTape(0) /\ InTape(to) /\ InTape(tmp)
         /\ FirstLoopExited)
        => /\ Now(0) = U32Zero
           /\ Now(to) = Before(0)
           /\ Now(tmp) = Before(0)
           /\ cur_cell_idx = start_idx

\* C13 witness: the first loop of COPY -1, 2 has just exited after running on
\* a nonzero value, with to and tmp having held other nonzero values
C13_Witness ==
    /\ Runs(CopyValue(-1, 2))
    /\ InTape(-1) /\ InTape(2)
    /\ FirstLoopExited
    /\ closes > 0
    /\ Before(0) # U32Zero
    /\ Before(-1) # U32Zero /\ Before(-1) # Before(0)

\* C15: a '<' executed with the pointer on cell 0 is a no-op: the pointer
\* stays on cell 0, no cell changes, and the run goes on without error.
C15_LeftAtZeroIsNoOp ==
    [][(/\ vm_pc = "run"
        /\ RetrieveFrom # "eof"
        /\ RetrieveByte = "<"
        /\ cur_cell_idx = 0)
       => /\ cur_cell_idx' = 0
          /\ board' = board
          /\ vm_pc' = "run"
          /\ vm_out' = vm_out
          /\ vm_stdin' = vm_stdin]_vars

\* C15 witness: the '<' of MOVE -1 has been executed on cell 0 of a tape of
\* nonzero cells
C15_Witness ==
    /\ Runs(Move(-1))
    /\ start_idx = 0
    /\ rpos = 1
    /\ vm_pc = "run"
    /\ cur_cell_idx = 0
    /\ board = start_board
    /\ Before(0) # U32Zero /\ Before(1) # U32Zero

\* the brackets of t, read left to right with open of them open and deepest
\* the deepest nesting so far: whether they balance, and the deepest nesting
RECURSIVE Brackets(_, _, _)
Brackets(t, open, deepest) ==
    IF t = <<>> THEN [balanced |-> open = 0, depth |-> deepest]
    ELSE IF Head(t) = "["
    THEN Brackets(Tail(t), open + 1, IF open + 1 > deepest THEN open + 1 ELSE deepest)
    ELSE IF Head(t) = "]"
    THEN IF open = 0 THEN [balanced |-> FALSE, depth |-> deepest]
         ELSE Brackets(Tail(t), open - 1, deepest)
    ELSE Brackets(Tail(t), open, deepest)

\* the bytes the skipping loop is about to read from the reader, up to and
\* including the next ']'
SkippedBytes ==
    LET rest == Drop(reader, rpos)
    IN  SubSeq(rest, 1, ThroughClose(rest, 1))

\* instructions whose operands, or the offsets computed from them, are the
\* smallest i32
ExtremeInstructions ==
    {Move(MinI32), MoveValue(MinI32), CopyValue(MinI32, MinI32),
     CopyValue(0, MinI32), CopyValue(MinI32, 0)}

\* C16: the emitted text of every instruction sequence has balanced brackets
\* and no '[' inside a loop (also what is written for the extreme operands, by
\* a build with or without overflow checks), so the skip from a '[' on a zero
\* cell to the next ']' ends on the ']' matching that '['.
C16_LoopsAreFlat ==
    /\ Brackets(reader, 0, 0).balanced
    /\ Brackets(reader, 0, 0).depth <= 1
    /\ \A i \in ExtremeInstructions, checks \in BOOLEAN :
          LET b == Brackets(write_instruction(i, checks).text, 0, 0)
          IN  b.balanced /\ b.depth <= 1
    /\ (vm_pc = "skip" /\ RetrieveFrom = "reader") =>
          /\ SkippedBytes # <<>>
          /\ SkippedBytes[Len(SkippedBytes)] = "]"
          /\ \A i \in 1..Len(SkippedBytes) : SkippedBytes[i] # "["

\* C16 witness: the VM is skipping the last loop of a COPY fragment, the
\* fourth of its text
C16_Witness ==
    /\ \E to \in Offsets, tmp \in Offsets : Runs(CopyValue(to, tmp)) /\ tmp # 0
    /\ vm_pc = "skip"
    /\ rpos > ThroughClose(reader, 3)
    /\ rpos < ThroughClose(reader, 4)

\* C17: from every tape and pointer position, the run of every emitted
\* fragment, the degenerate ones included, comes to an end: no emitted loop
\* runs forever.
C17_FragmentsEnd == <>(vm_pc \in {"done", "panic", "err"})

(***************************************************************************)
(* Properties of the VM from its initial state (SpecTape)                  *)
(***************************************************************************)
\* C11: the current cell index is always inside the board, so cur_cell_mut
\* never reaches its unreachable branch (the VM never panics).
C11_PointerInsideBoard == cur_cell_idx < Len(board) /\ vm_pc # "panic"

(***************************************************************************)
(* Properties of the drain-and-carry loop alone (SpecLoop)                 *)
(***************************************************************************)
\* the loop's distance and the offset of the cell it carries into, read off
\* its text "[-" sign_fwd^d "+" sign_back^d "]"
LoopDist == (Len(reader) - 4) \div 2
LoopDest == IF reader[3] = ">" THEN LoopDist ELSE -LoopDist

\* c + k in limbs, without a largest value: the sum is no u32 when it exceeds
\* the largest
exact_add(c, k) == <<c[1] + ((c[2] + k) \div Half), (c[2] + k) % Half>>

\* c after k saturating increments
RECURSIVE saturating_add(_, _)
saturating_add(c, k) == IF k = 0 THEN c ELSE saturating_add(saturating_add1(c), k - 1)

\* the loop's text has run to its end with the results of the claim, but for
\* the value carried into the destination
LoopDrained ==
    /\ ~Failed
    /\ vm_pc = "done" =>
          /\ closes = U32Val(Before(0))
          /\ Now(0) = U32Zero
          /\ cur_cell_idx = start_idx
          /\ \A i \in 1..Len(board) :
                (i - 1 # Reg(0) /\ i - 1 # Reg(LoopDest)) => board[i] = start_board[i]

\* C12 as stated: for d > 0, source and destination cells of the tape, the
\* loop runs exactly value iterations and ends with the source at 0, the
\* destination increased by value and the pointer on the source.
C12_LoopAddsValue ==
    (InTape(0) /\ InTape(LoopDest))
    => /\ LoopDrained
       /\ vm_pc = "done" =>
             Now(LoopDest) = exact_add(Before(LoopDest), U32Val(Before(0)))

\* C12 amended: the same, the destination being increased by value up to the
\* largest u32, where the VM's increment saturates.
C12_LoopAddsValueSaturating ==
    (InTape(0) /\ InTape(LoopDest))
    => /\ LoopDrained
       /\ vm_pc = "done" =>
             Now(LoopDest) = saturating_add(Before(LoopDest), U32Val(Before(0)))

\* C12 witness: a loop of more than one iteration has ended, having carried
\* into a cell that held a nonzero value below the largest
C12_Witness ==
    /\ InTape(0) /\ InTape(LoopDest)
    /\ vm_pc = "done"
    /\ closes > 1
    /\ Before(LoopDest) # U32Zero
    /\ Before(LoopDest) # U32Max

(***************************************************************************)
(* Properties of the compiler process (Spec)                               *)
(***************************************************************************)
\* the fold stopped on an instruction that does not parse: text other than
\* white space is left unread
Unparsed(t) == multispace0(parse(t).rest) # <<>>
\* every instruction of t parses
ParsesWhole(t) == parse(t).ok /\ ~Unparsed(t)

\* what the process writes to standard output for source text t when no write
\* fails
Emitted(t, checks) ==
    LET r == parse(t)
    IN  (IF r.said THEN BAD_WORD ELSE <<>>)
        \o (IF r.ok THEN compile(r.instrs, checks).text ELSE <<>>)

\* position i of t is the start of a line
AtLineStart(t, i) == i = 0 \/ t[i] = NL

\* C4: when some instruction of the input (a mnemonic, not a comment) fails to
\* parse, parse returns a failure, the process exits with the parse-error
\* status and nothing is written to standard output.
C4_NoPartialProgram ==
    (pc \in {"compile", "exit"} /\ Unparsed(s)
     /\ Head(multispace0(parse(s).rest)) # ";")
    => (pc = "exit" /\ exit_code = EXIT_PARSE /\ stdout = <<>>)

\* C5: a comment line that a real instruction follows compiles to the output of
\* the same text without the comment line.
C5_CommentLineIsRemoved ==
    (pc = "exit" /\ exit_code = EXIT_SUCCESS)
    => \A c \in CommentLines, i \in 0..Len(s) :
          (/\ AtLineStart(s, i)
           /\ StartsWith(Drop(s, i), c)
           /\ LET next == parse_instruction(Drop(s, i + Len(c)))
              IN  next.k = "ok" /\ next.some)
          => stdout = Emitted(SubSeq(s, 1, i) \o Drop(s, i + Len(c)), overflow_checks)

\* the text from position j on is WRITE with the quoted escape of character c
WriteEscapeAt(t, j, c) ==
    /\ AtLineStart(t, j)
    /\ StartsWith(Drop(t, j), M_WRITE \o SP \o <<Quote, Backslash, c, Quote>>)
    /\ ParsesWhole(SubSeq(t, 1, j))

EscapeChars == {"n", "t", Quote}

\* C8: a WRITE whose operand is the quoted escape of a character other than n
\* makes parse fail for the whole input (the process exits with the
\* parse-error status and no instruction list); the escape of n yields
\* Write(10).
C8_EscapeContract ==
    pc \in {"compile", "exit"}
    => \A j \in 0..Len(s), c \in EscapeChars :
          WriteEscapeAt(s, j, c)
          => IF c = "n"
             THEN LET k == Len(parse(SubSeq(s, 1, j)).instrs) + 1
                  IN  pc = "compile" =>
                         /\ Len(instructions) >= k
                         /\ instructions[k] = WriteI(U32(10))
             ELSE pc = "exit" /\ exit_code = EXIT_PARSE /\ instructions = <<>>

\* the lines of t: the text between line feeds, and after the last one
RECURSIVE SplitLines(_)
SplitLines(t) ==
    LET i == FindChar(t, NL)
    IN  IF t = <<>> THEN <<>>
        ELSE IF i = 0 THEN <<t>>
        ELSE <<SubSeq(t, 1, i - 1)>> \o SplitLines(Drop(t, i))

IsCommentLine(line) == LET a == multispace0(line) IN a # <<>> /\ Head(a) = ";"
\* the line, alone, is one instruction
IsInstructionLine(line) ==
    LET r == parse(line \o EOL)
    IN  r.ok /\ Len(r.instrs) = 1 /\ ~Unparsed(line \o EOL) /\ ~IsCommentLine(line)
LineInstruction(line) == parse(line \o EOL).instrs[1]

\* the fragments, each with its line feed, of the non-comment lines of t
RECURSIVE FragmentsOf(_, _)
FragmentsOf(lines, checks) ==
    IF lines = <<>> THEN <<>>
    ELSE (IF IsCommentLine(Head(lines)) THEN <<>>
          ELSE write_instruction(LineInstruction(Head(lines)), checks).text \o EOL)
         \o FragmentsOf(Tail(lines), checks)

\* C9: for a source whose lines are each a comment or one instruction, the
\* output is, in source order, the fragment of each non-comment instruction
\* followed by one line feed, and no fragment holds a line feed.
C9_OutputIsTheFragments ==
    LET lines == SplitLines(s)
    IN  (/\ pc = "exit" /\ exit_code = EXIT_SUCCESS
         /\ \A i \in 1..Len(lines) :
               IsCommentLine(lines[i]) \/ IsInstructionLine(lines[i]))
        => /\ stdout = FragmentsOf(lines, overflow_checks)
           /\ \A i \in 1..Len(instructions) :
                 FindChar(write_instruction(instructions[i], overflow_checks).text, NL) = 0

\* C14: for every i32 n, the smallest included, the fragment of Move(n) is n
\* '>' for n > 0, |n| '<' for n < 0 and empty for n = 0 (seen on standard
\* output, followed by compile's line feed, for a source of one MOVE).
C14_MoveFragment ==
    (/\ pc \in {"compile", "exit"}
     /\ Len(instructions) = 1 /\ instructions[1].op = "Move"
     /\ ~parse(s).said
     /\ exit_code # EXIT_WRITE)
    => /\ stderr = <<>>
       /\ ip = 2 =>
             LET n == instructions[1].a
                 fragment == SubSeq(stdout, 1, Len(stdout) - 1)
             IN  /\ stdout # <<>> /\ stdout[Len(stdout)] = NL
                 /\ n > 0 => /\ Len(fragment) = n
                             /\ \A i \in 1..Len(fragment) : fragment[i] = ">"
                 /\ n < 0 => /\ Len(fragment) + n = 0
                             /\ \A i \in 1..Len(fragment) : fragment[i] = "<"
                 /\ n = 0 => fragment = <<>>

\* C10: the process ends in one of four outcomes, told apart by the exit
\* status: success, or the failure of the read, parse or emit stage with that
\* stage's status and diagnostic; a read or parse failure writes no fragment.
C10_FourOutcomes ==
    /\ Cardinality({EXIT_SUCCESS, EXIT_READ, EXIT_PARSE, EXIT_WRITE}) = 4
    /\ pc = "exit" =>
          \/ /\ exit_code = EXIT_SUCCESS
             /\ stderr = <<>>
             /\ ip = Len(instructions) + 1
          \/ /\ exit_code = EXIT_READ
             /\ stderr = <<"Error reading from stdin">>
             /\ s = <<>> /\ instructions = <<>> /\ stdout = <<>>
          \/ /\ exit_code = EXIT_PARSE
             /\ stderr = <<"Error Parsing input">>
             /\ instructions = <<>> /\ ip = 1
          \/ /\ exit_code = EXIT_WRITE
             /\ stderr = <<"Error writing to stdout">>
             /\ ip <= Len(instructions)

====
